---- MODULE Spec2Model ----
(***************************************************************************)
(* CollectionManager (collection_manager/manager.py): a directory of text  *)
(* documents and the metadata index kept beside it in index.json.          *)
(*                                                                         *)
(* A string is a sequence of one-character strings, so that basename, the  *)
(* filename pattern, rstrip and the splitting of a file into lines are     *)
(* computed character by character as the code computes them.              *)
(*                                                                         *)
(* Every manager operation is one atomic action (the manager is            *)
(* synchronous and single-threaded).  last records which operation ran     *)
(* last, how it ended and what it returned.  Where a crash in the middle   *)
(* of a call matters (SpecCrash), the writes of a call are separate steps  *)
(* and run tells how far the call has come.                                *)
(***************************************************************************)
EXTENDS Integers, Sequences, FiniteSets, TLC

VARIABLES
    disk,       \* regular files of the collection directory other than index.json: name -> [content, ctime, mtime, readable]
    bulk,       \* number of further documents in the directory, whose names no modelled call mentions
    index,      \* CollectionManager._index: filename -> FileMeta
    persisted,  \* the file index.json: [exists, members, closed], the JSON text it holds
    now,        \* the clock read by datetime.utcnow() and by the filesystem
    run,        \* the call in progress, where the steps of a call are followed: [at, op, ret, tmp, fname, lines, before]
    last        \* the last call: [op, result, ret, wrote]; wrote tells whether it ran _write_index

vars == <<disk, bulk, index, persisted, now, run, last>>

\* ------------------------------------------------------------------ bounds

\* Longest document, in characters, that add_lines may produce or an operator may drop in.
MaxFileLen == 3
\* Longest list of lines passed to one add_lines call.
MaxAppend == 2
\* Largest line number passed to remove_line.
MaxLineNo == 3
\* Latest reading of the clock.
MaxClock == 2

\* ------------------------------------------------------------- constants

MAX_FILES == 100

NL == "\n"

INDEX_FILENAME == <<"i", "n", "d", "e", "x", ".", "j", "s", "o", "n">>

\* index_path.with_suffix(".tmp"): the name _write_index gives its temporary file
IndexTmp == <<"i", "n", "d", "e", "x", ".", "t", "m", "p">>

\* ------------------------------------------------------------ input names

NotesTxt == <<"n", "o", "t", "e", "s", ".", "t", "x", "t">>
DirNotesTxt == <<"d", "/">> \o NotesTxt
EtcPasswd == <<".", ".", "/", ".", ".", "/", "e", "t", "c", "/", "p", "a", "s", "s", "w", "d">>
Passwd == <<"p", "a", "s", "s", "w", "d">>
Dot == <<".">>
DotDot == <<".", ".">>
BadChars == <<"a", "*">>
TrailingSlash == <<"d", "/">>

\* The names the calls are made with.
InputNames ==
    {NotesTxt, DirNotesTxt, IndexTmp, INDEX_FILENAME, EtcPasswd, Dot, DotDot, BadChars, TrailingSlash}

\* The tags the tag calls are made with.
Tags == {"important"}

\* The names the calls are made with where the text of one document is followed.
TextNames == {NotesTxt, BadChars}

\* The strings add_lines is given as lines: "", "a", "A\n\n", "\nA".
LineA == <<"a">>
LineStrings == {<< >>, LineA, <<"A", NL, NL>>, <<NL, "A">>}

\* ------------------------------------------------------- _sanitize_filename

SetMax(S) == CHOOSE x \in S : \A y \in S : y <= x

\* os.path.basename: what follows the last "/"
Basename(name) ==
    LET slashes == {i \in 1..Len(name) : name[i] = "/"}
    IN  IF slashes = {} THEN name ELSE SubSeq(name, SetMax(slashes) + 1, Len(name))

Letters ==
    {"a", "b", "c", "d", "e", "f", "g", "h", "i", "j", "k", "l", "m",
     "n", "o", "p", "q", "r", "s", "t", "u", "v", "w", "x", "y", "z",
     "A", "B", "C", "D", "E", "F", "G", "H", "I", "J", "K", "L", "M",
     "N", "O", "P", "Q", "R", "S", "T", "U", "V", "W", "X", "Y", "Z"}

Digits == {"0", "1", "2", "3", "4", "5", "6", "7", "8", "9"}

\* the character class [\w\-. ]
FilenameChars == Letters \cup Digits \cup {"_", "-", ".", " "}

\* FILENAME_RE.match(base) for ^[\w\-. ]+$ ; "$" also matches before one final newline
FILENAME_RE(base) ==
    LET body == IF Len(base) > 0 /\ base[Len(base)] = NL
                THEN SubSeq(base, 1, Len(base) - 1) ELSE base
    IN  /\ Len(body) >= 1
        /\ \A i \in 1..Len(body) : body[i] \in FilenameChars

\* _sanitize_filename without its test for the reserved name
SanitizeOkNoReserved(name) ==
    LET base == Basename(name)
    IN  /\ base # << >>
        /\ FILENAME_RE(base)

\* _sanitize_filename returns the basename (TRUE) or raises ValueError (FALSE)
SanitizeOk(name) ==
    LET base == Basename(name)
    IN  /\ base # << >>
        /\ FILENAME_RE(base)
        /\ base # INDEX_FILENAME

\* _file_path: data_dir / fname.  "." is the collection directory itself, ".."
\* its parent; every other basename is an entry of the collection directory.
FilePath(name) ==
    LET base == Basename(name)
    IN  IF base = Dot THEN [kind |-> "self", name |-> base]
        ELSE IF base = DotDot THEN [kind |-> "parent", name |-> base]
        ELSE [kind |-> "entry", name |-> base]

IsDirectory(path) == path.kind # "entry"

\* Path.exists()
PathExists(d, path) == IsDirectory(path) \/ path.name \in DOMAIN d

\* ------------------------------------------------------------ file text

SetMin(S) == CHOOSE x \in S : \A y \in S : x <= y

\* fh.readlines(), and iterating fh: the text cut after each "\n", terminators kept
RECURSIVE readlines(_)
readlines(text) ==
    IF text = << >> THEN << >>
    ELSE LET nls == {i \in 1..Len(text) : text[i] = NL}
         IN  IF nls = {} THEN <<text>>
             ELSE <<SubSeq(text, 1, SetMin(nls))>>
                      \o readlines(SubSeq(text, SetMin(nls) + 1, Len(text)))

\* str.rstrip("\n"): every trailing "\n" removed
RECURSIVE rstrip(_)
rstrip(s) ==
    IF s # << >> /\ s[Len(s)] = NL THEN rstrip(SubSeq(s, 1, Len(s) - 1)) ELSE s

\* fh.writelines(lines): the strings one after the other
RECURSIVE writelines(_)
writelines(lines) ==
    IF lines = << >> THEN << >> ELSE Head(lines) \o writelines(Tail(lines))

\* what show_file returns for a file holding text
ShownLines(text) ==
    LET lines == readlines(text) IN [i \in 1..Len(lines) |-> rstrip(lines[i])]

\* what add_lines writes at the end of the file
AppendedText(lines) ==
    writelines([i \in 1..Len(lines) |-> rstrip(lines[i]) \o <<NL>>])

\* the place, counted from 1, of Python's list index k: a negative k counts from the end
ListPos(lines, k) == IF k < 0 THEN Len(lines) + k + 1 ELSE k + 1

\* the list without the element at place pos
Popped(lines, pos) ==
    SubSeq(lines, 1, pos - 1) \o SubSeq(lines, pos + 1, Len(lines))

\* --------------------------------------------------------- sorted names

\* the characters of the modelled strings in the order of their code points
CodePoints ==
    <<NL, " ", "*", "-", ".", "/",
      "0", "1", "2", "3", "4", "5", "6", "7", "8", "9",
      "A", "B", "C", "D", "E", "F", "G", "H", "I", "J", "K", "L", "M",
      "N", "O", "P", "Q", "R", "S", "T", "U", "V", "W", "X", "Y", "Z", "_",
      "a", "b", "c", "d", "e", "f", "g", "h", "i", "j", "k", "l", "m",
      "n", "o", "p", "q", "r", "s", "t", "u", "v", "w", "x", "y", "z">>

\* the place of every character in CodePoints
PlaceOf ==
    [c \in {CodePoints[i] : i \in 1..Len(CodePoints)} |->
        CHOOSE i \in 1..Len(CodePoints) : CodePoints[i] = c]

\* ord(c)
Ord(c) == PlaceOf[c]

\* a < b for two strings, as sorted() compares the names of two paths of one directory
RECURSIVE StrLess(_, _)
StrLess(a, b) ==
    IF b = << >> THEN FALSE
    ELSE IF a = << >> THEN TRUE
    ELSE IF a[1] = b[1] THEN StrLess(Tail(a), Tail(b))
    ELSE Ord(a[1]) < Ord(b[1])

\* sorted(names)
RECURSIVE Sorted(_)
Sorted(names) ==
    IF names = {} THEN << >>
    ELSE LET first == CHOOSE x \in names : \A y \in names \ {x} : StrLess(x, y)
         IN  <<first>> \o Sorted(names \ {first})

\* ------------------------------------------------------------- the index

\* Python's None, and an Optional value that is not None
None == << >>
Some(x) == <<x>>

FileMeta(filename, created_at, last_modified, size, tags) ==
    [filename |-> filename, created_at |-> created_at,
     last_modified |-> last_modified, size |-> size, tags |-> tags]

\* a function without / with one key
DropKey(f, k) == [x \in DOMAIN f \ {k} |-> f[x]]
PutKey(f, k, v) == [x \in DOMAIN f \cup {k} |-> IF x = k THEN v ELSE f[x]]

\* _write_index, its effect on the documents: the JSON text is written to
\* index.tmp, which is then renamed to index.json, so no file named index.tmp is
\* left behind, whatever it held before.
TmpReplaced(d) == DropKey(d, IndexTmp)

\* The JSON text of an index is the sequence of the members "key": {...} of
\* one object, in the order they are written, and whether the object was
\* closed: a text that stops before its last brace cannot be parsed.

\* the fields of the dataclass FileMeta
FileMetaFields == {"filename", "created_at", "last_modified", "size", "tags"}

\* dataclasses.asdict(meta)
asdict(meta) == [k \in FileMetaFields |-> meta[k]]

\* json.dump({k: asdict(v) for k, v in self._index.items()}, fh, indent=2):
\* one member per entry.  The order of the entries of the dict is not
\* modelled; the members are written by ascending key.
JsonText(idx) ==
    LET keys == Sorted(DOMAIN idx)
    IN  [members |-> [i \in 1..Len(keys) |-> <<keys[i], asdict(idx[keys[i]])>>],
         closed |-> TRUE]

\* _write_index, the file it leaves as index.json
Dumped(idx) == [exists |-> TRUE] @@ JsonText(idx)

\* no file index.json
Missing == [exists |-> FALSE, members |-> << >>, closed |-> FALSE]

\* the keys of the members of a JSON text
MemberKeys(text) == {text.members[i][1] : i \in 1..Len(text.members)}

\* json.load(fh): the dict of a text that parses, a later member replacing an
\* earlier one of the same key
JsonLoad(text) ==
    [k \in MemberKeys(text) |->
        text.members[SetMax({i \in 1..Len(text.members) : text.members[i][1] = k})][2]]

\* _load_index that takes no index file as good
LoadsNever(file) == FALSE

\* _load_index reaches its end without an exception: the file is there,
\* json.load parses it, and FileMeta(**meta) is given exactly the fields of
\* FileMeta for every member
Loads(file) ==
    /\ file.exists
    /\ file.closed
    /\ \A k \in MemberKeys(file) : DOMAIN JsonLoad(file)[k] = FileMetaFields

\* the index _load_index fills from a file that loads
Loaded(file) ==
    LET raw == JsonLoad(file)
    IN  [fname \in DOMAIN raw |->
            FileMeta(raw[fname].filename, raw[fname].created_at,
                     raw[fname].last_modified, raw[fname].size, raw[fname].tags)]

\* the file count taken by create_file: regular files other than index.json
FilesCount(d, b) == Cardinality(DOMAIN d) + b

\* _update_meta_for, up to the index write
UpdatedMeta(idx, d, fname, t) ==
    IF fname \notin DOMAIN idx
    THEN PutKey(idx, fname, FileMeta(fname, t, t, Len(d[fname].content), << >>))
    ELSE PutKey(idx, fname, [idx[fname] EXCEPT !.last_modified = t,
                                                !.size = Len(d[fname].content)])

\* ------------------------------------------------------------------ calls

\* run while a call is at the given place.  tmp is the file index.tmp while it
\* is the temporary file of _write_index; fname, lines and before are the
\* file remove_line rewrites, the lines it writes and the text the file had.
Run(at, op, ret) ==
    [at |-> at, op |-> op, ret |-> ret, tmp |-> Missing,
     fname |-> << >>, lines |-> << >>, before |-> << >>]

\* every call is taken as one step
Whole == Run("whole", "", None)

\* no call is in progress; the writes of the next call are taken step by step
Idle == Run("idle", "", None)

\* the call ends without having written the index
Returned(op, result, ret) ==
    last' = [op |-> op, result |-> result, ret |-> ret, wrote |-> FALSE]

\* _write_index as the last statement of a call that leaves the documents d1
\* and the index idx1, and then returns ret
WriteIndex(op, d1, idx1, ret) ==
    IF run.at = "whole"
    THEN /\ disk' = TmpReplaced(d1)
         /\ index' = idx1
         /\ persisted' = Dumped(idx1)
         /\ last' = [op |-> op, result |-> "ok", ret |-> ret, wrote |-> TRUE]
         /\ run' = run
    ELSE /\ disk' = d1
         /\ index' = idx1
         /\ persisted' = persisted
         /\ last' = [op |-> op, result |-> "running", ret |-> None, wrote |-> FALSE]
         /\ run' = [run EXCEPT !.at = "write_index", !.op = op, !.ret = ret]

\* the call raises before it changed anything
Raises(op, kind) ==
    /\ Returned(op, kind, None)
    /\ UNCHANGED <<disk, bulk, index, persisted, now, run>>

\* the file just written at path, then _update_meta_for(path)
WrittenAndIndexed(op, d1, fname, ret) ==
    LET idx1 == UpdatedMeta(index, d1, fname, now)
    IN  /\ WriteIndex(op, d1, idx1, ret)
        /\ UNCHANGED <<bulk, now>>

\* the limit test of create_file, off by one
CollectionFullAbove(count) == count > MAX_FILES

\* the limit test of create_file
CollectionFull(count) == count >= MAX_FILES

\* whether open(path, "r") is permitted; a file the manager makes is readable
Readable(d, fname) == fname \in DOMAIN d => d[fname].readable

create_file(name, overwrite) ==
    LET path == FilePath(name)
    IN  IF CollectionFull(FilesCount(disk, bulk)) THEN Raises("create_file", "CollectionFull")
        ELSE IF ~SanitizeOk(name) THEN Raises("create_file", "InvalidName")
        ELSE IF PathExists(disk, path) /\ ~overwrite THEN Raises("create_file", "AlreadyExists")
        ELSE IF IsDirectory(path) THEN Raises("create_file", "IsADirectory")
        ELSE WrittenAndIndexed("create_file",
                 PutKey(disk, path.name,
                        [content |-> << >>, ctime |-> now, mtime |-> now,
                         readable |-> Readable(disk, path.name)]),
                 path.name, None)

\* _rebuild_index that refreshes the files it tracks and takes up no other
RebuiltTracked(d) ==
    [f \in DOMAIN d \cap DOMAIN index |->
        FileMeta(f, d[f].ctime, d[f].mtime, Len(d[f].content), << >>)]

\* _rebuild_index without its first statement, self._index = {}
RebuiltOverOld(d) ==
    [f \in DOMAIN d \cup DOMAIN index |->
        IF f \in DOMAIN d
        THEN FileMeta(f, d[f].ctime, d[f].mtime, Len(d[f].content), << >>)
        ELSE index[f]]

\* _rebuild_index, up to the index write: one fresh FileMeta per regular file
Rebuilt(d) ==
    [f \in DOMAIN d |-> FileMeta(f, d[f].ctime, d[f].mtime, Len(d[f].content), << >>)]

\* list(self._index.values()) of an index filled by _rebuild_index, which
\* inserts the entries in the order of sorted(iterdir())
ListValues(idx) ==
    LET keys == Sorted(DOMAIN idx) IN [i \in 1..Len(keys) |-> idx[keys[i]]]

\* list_files returns list(self._index.values()), the entries of the index it leaves
list_files ==
    /\ WriteIndex("list_files", disk, Rebuilt(disk), ListValues(Rebuilt(disk)))
    /\ UNCHANGED <<bulk, now>>

show_file(name) ==
    LET path == FilePath(name)
    IN  IF ~SanitizeOk(name) THEN Raises("show_file", "InvalidName")
        ELSE IF ~PathExists(disk, path) THEN Raises("show_file", "NotFound")
        ELSE IF IsDirectory(path) THEN Raises("show_file", "IsADirectory")
        ELSE IF ~Readable(disk, path.name) THEN Raises("show_file", "PermissionError")
        ELSE /\ Returned("show_file", "ok", ShownLines(disk[path.name].content))
             /\ UNCHANGED <<disk, bulk, index, persisted, now, run>>

\* the file at fname after text was written at its end
Appended(d, fname, text, t) ==
    IF text = << >> THEN d
    ELSE [d EXCEPT ![fname] = [@ EXCEPT !.content = @ \o text, !.ctime = t, !.mtime = t]]

\* add_lines that opens the file for appending before it tests whether the
\* file exists: the missing file is created empty, then FileNotFoundError
add_lines_creating(name, lines) ==
    LET path == FilePath(name)
    IN  IF ~SanitizeOk(name) THEN Raises("add_lines", "InvalidName")
        ELSE IF ~PathExists(disk, path)
             THEN /\ disk' = PutKey(disk, path.name,
                                    [content |-> << >>, ctime |-> now, mtime |-> now,
                                     readable |-> TRUE])
                  /\ Returned("add_lines", "NotFound", None)
                  /\ UNCHANGED <<bulk, index, persisted, now, run>>
        ELSE IF IsDirectory(path) THEN Raises("add_lines", "IsADirectory")
        ELSE WrittenAndIndexed("add_lines",
                 Appended(disk, path.name, AppendedText(lines), now), path.name, None)

add_lines(name, lines) ==
    LET path == FilePath(name)
    IN  IF ~SanitizeOk(name) THEN Raises("add_lines", "InvalidName")
        ELSE IF ~PathExists(disk, path) THEN Raises("add_lines", "NotFound")
        ELSE IF IsDirectory(path) THEN Raises("add_lines", "IsADirectory")
        ELSE WrittenAndIndexed("add_lines",
                 Appended(disk, path.name, AppendedText(lines), now), path.name, None)

\* the key remove_file looks up in the index: the name as it was passed in
RemovedKey(name) == name

remove_file(name) ==
    LET path == FilePath(name)
        d1 == DropKey(disk, path.name)
    IN  IF ~SanitizeOk(name) THEN Raises("remove_file", "InvalidName")
        ELSE IF ~PathExists(disk, path) THEN Raises("remove_file", "NotFound")
        ELSE IF IsDirectory(path) THEN Raises("remove_file", "IsADirectory")
        ELSE IF RemovedKey(name) \in DOMAIN index
             THEN /\ WriteIndex("remove_file", d1, DropKey(index, RemovedKey(name)), None)
                  /\ UNCHANGED <<bulk, now>>
             ELSE /\ disk' = d1
                  /\ Returned("remove_file", "ok", None)
                  /\ UNCHANGED <<bulk, index, persisted, now, run>>

\* the first test of remove_line, off by one
InvalidLineNoBelowZero(line_no) == line_no < 0

\* the test remove_line makes of line_no before anything else
InvalidLineNo(line_no) == line_no < 1

remove_line(name, line_no) ==
    LET path == FilePath(name)
    IN  IF InvalidLineNo(line_no) THEN Raises("remove_line", "InvalidArgument")
        ELSE IF ~SanitizeOk(name) THEN Raises("remove_line", "InvalidName")
        ELSE IF ~PathExists(disk, path) THEN Raises("remove_line", "NotFound")
        ELSE IF IsDirectory(path) THEN Raises("remove_line", "IsADirectory")
        ELSE IF ~Readable(disk, path.name) THEN Raises("remove_line", "PermissionError")
        ELSE LET lines == readlines(disk[path.name].content)
                 pos == ListPos(lines, line_no - 1)
             IN  IF line_no > Len(lines) \/ pos \notin 1..Len(lines)
                 THEN Raises("remove_line", "OutOfRange")
                 ELSE IF run.at = "whole"
                 THEN WrittenAndIndexed("remove_line",
                          [disk EXCEPT ![path.name] =
                              [@ EXCEPT !.content = writelines(Popped(lines, pos)),
                                        !.ctime = now, !.mtime = now]],
                          path.name, rstrip(lines[pos]))
                 ELSE \* path.open("w") has emptied the file; nothing is written yet
                      /\ disk' = [disk EXCEPT ![path.name] =
                                     [@ EXCEPT !.content = << >>,
                                               !.ctime = now, !.mtime = now]]
                      /\ run' = [Run("truncated", "remove_line", rstrip(lines[pos]))
                                    EXCEPT !.fname = path.name,
                                           !.lines = Popped(lines, pos),
                                           !.before = disk[path.name].content]
                      /\ last' = [op |-> "remove_line", result |-> "running",
                                  ret |-> None, wrote |-> FALSE]
                      /\ UNCHANGED <<bulk, index, persisted, now>>

\* remove_line, from fh.writelines(lines) on: the lines are written, the file
\* is closed and _update_meta_for begins
remove_line_write ==
    /\ run.at = "truncated"
    /\ WrittenAndIndexed(run.op,
           [disk EXCEPT ![run.fname] =
               [@ EXCEPT !.content = writelines(run.lines), !.ctime = now, !.mtime = now]],
           run.fname, run.ret)

UpperCase ==
    <<"A", "B", "C", "D", "E", "F", "G", "H", "I", "J", "K", "L", "M",
      "N", "O", "P", "Q", "R", "S", "T", "U", "V", "W", "X", "Y", "Z">>

LowerCase ==
    <<"a", "b", "c", "d", "e", "f", "g", "h", "i", "j", "k", "l", "m",
      "n", "o", "p", "q", "r", "s", "t", "u", "v", "w", "x", "y", "z">>

\* str.lower() that changes no character
lowerKept(s) == s

\* str.lower()
lower(s) ==
    [i \in 1..Len(s) |->
        IF \E k \in 1..26 : UpperCase[k] = s[i]
        THEN LowerCase[CHOOSE k \in 1..26 : UpperCase[k] = s[i]]
        ELSE s[i]]

\* needle in hay
In(needle, hay) ==
    \E k \in 0..(Len(hay) - Len(needle)) : SubSeq(hay, k + 1, k + Len(needle)) = needle

\* the paths find_text opens, in the order it opens them: the regular files of
\* the directory, index.json left out
Scanned(d) == Sorted({p \in DOMAIN d \cup {INDEX_FILENAME} : p # INDEX_FILENAME})

\* the results find_text appends while it reads one file, from its line i on
RECURSIVE FileMatches(_, _, _, _, _)
FileMatches(fname, lines, i, needle, ignore_case) ==
    IF i > Len(lines) THEN << >>
    ELSE LET hay == IF ignore_case THEN lower(lines[i]) ELSE lines[i]
         IN  (IF In(needle, hay) THEN << <<fname, i, rstrip(lines[i])>> >> ELSE << >>)
                 \o FileMatches(fname, lines, i + 1, needle, ignore_case)

\* the loop of find_text over the paths: open() of a file that may not be read
\* raises, and nothing in find_text catches it
RECURSIVE Scan(_, _, _, _)
Scan(d, paths, needle, ignore_case) ==
    IF paths = << >> THEN [raised |-> FALSE, results |-> << >>]
    ELSE IF ~Readable(d, Head(paths)) THEN [raised |-> TRUE, results |-> << >>]
    ELSE LET rest == Scan(d, Tail(paths), needle, ignore_case)
         IN  [raised |-> rest.raised,
              results |-> FileMatches(Head(paths), readlines(d[Head(paths)].content),
                                      1, needle, ignore_case) \o rest.results]

find_text(text, ignore_case) ==
    LET needle == IF ignore_case THEN lower(text) ELSE text
        scan == Scan(disk, Scanned(disk), needle, ignore_case)
    IN  IF scan.raised THEN Raises("find_text", "PermissionError")
        ELSE /\ Returned("find_text", "ok", scan.results)
             /\ UNCHANGED <<disk, bulk, index, persisted, now, run>>

\* self._index.get(name) after sanitizing
IndexGet(idx, name) ==
    IF Basename(name) \in DOMAIN idx THEN Some(idx[Basename(name)]) ELSE None

get_meta(name) ==
    IF ~SanitizeOk(name) THEN Raises("get_meta", "InvalidName")
    ELSE /\ Returned("get_meta", "ok", IndexGet(index, name))
         /\ UNCHANGED <<disk, bulk, index, persisted, now, run>>

\* a tag call that changes the list of tags of the entry and returns without
\* _write_index
RetaggedUnwritten(op, fname, tags) ==
    /\ index' = [index EXCEPT ![fname].tags = tags]
    /\ Returned(op, "ok", None)
    /\ UNCHANGED <<disk, bulk, persisted, now, run>>

\* a tag call that changed meta.tags: the index is written
Retagged(op, fname, tags) ==
    LET idx1 == [index EXCEPT ![fname].tags = tags]
    IN  /\ WriteIndex(op, disk, idx1, None)
        /\ UNCHANGED <<bulk, now>>

\* a tag call that found nothing to change
Untouched(op) ==
    /\ Returned(op, "ok", None)
    /\ UNCHANGED <<disk, bulk, index, persisted, now, run>>

\* the test `tag in meta.tags` that finds no tag
InSeqNever(x, s) == FALSE

\* x in s
InSeq(x, s) == \E i \in 1..Len(s) : s[i] = x

\* list.remove(x): the list without the first x
RemoveFirst(s, x) ==
    LET k == SetMin({i \in 1..Len(s) : s[i] = x})
    IN  SubSeq(s, 1, k - 1) \o SubSeq(s, k + 1, Len(s))

add_tag(name, tag) ==
    LET meta == IndexGet(index, name)
    IN  IF ~SanitizeOk(name) THEN Raises("add_tag", "InvalidName")
        ELSE IF meta = None THEN Raises("add_tag", "NotFound")
        ELSE IF ~InSeq(tag, meta[1].tags)
             THEN Retagged("add_tag", Basename(name), Append(meta[1].tags, tag))
             ELSE Untouched("add_tag")

remove_tag(name, tag) ==
    LET meta == IndexGet(index, name)
    IN  IF ~SanitizeOk(name) THEN Raises("remove_tag", "InvalidName")
        ELSE IF meta = None THEN Raises("remove_tag", "NotFound")
        ELSE IF InSeq(tag, meta[1].tags)
             THEN Retagged("remove_tag", Basename(name), RemoveFirst(meta[1].tags, tag))
             ELSE Untouched("remove_tag")

\* CollectionManager(data_dir) over the directory as it is: __init__, which
\* ends with _load_index.  The index is read from index.json; when that fails
\* in any way it is rebuilt from the directory and written.
_load_index ==
    /\ IF Loads(persisted)
       THEN /\ index' = Loaded(persisted)
            /\ Returned("__init__", "ok", None)
            /\ UNCHANGED <<disk, persisted, run>>
       ELSE WriteIndex("__init__", disk, Rebuilt(disk), None)
    /\ UNCHANGED <<bulk, now>>

\* ------------------------------------------------------------ the system

\* A manager constructed over a directory that holds no index.json and, besides
\* bulk documents the calls never name, no document: _rebuild_index finds the
\* named part of the index empty and writes it.
Init ==
    /\ disk = << >>
    /\ bulk \in {0, MAX_FILES - 1}
    /\ index = << >>
    /\ persisted = Dumped(<< >>)
    /\ now = 0
    /\ last = [op |-> "init", result |-> "ok", ret |-> None, wrote |-> TRUE]
    /\ run = Whole

\* add_lines on a document that stays within MaxFileLen characters
Fits(name, lines) ==
    Basename(name) \in DOMAIN disk
        => Len(disk[Basename(name)].content) + Len(AppendedText(lines)) <= MaxFileLen

\* the calls made with names, lists of lines and line numbers drawn from the given sets
Calls(names, lineLists, lineNos) ==
    \/ list_files
    \/ \E name \in names, overwrite \in BOOLEAN : create_file(name, overwrite)
    \/ \E name \in names : show_file(name)
    \/ \E name \in names, lines \in lineLists : Fits(name, lines) /\ add_lines(name, lines)
    \/ \E name \in names : remove_file(name)
    \/ \E name \in names, line_no \in lineNos : remove_line(name, line_no)
    \/ \E name \in names : get_meta(name)
    \/ \E name \in names, tag \in Tags : add_tag(name, tag)
    \/ \E name \in names, tag \in Tags : remove_tag(name, tag)

\* Spec: the manager's calls with every input name; the text of a document is
\* at most the line "a", and the line numbers are 0 (invalid), 1 and 2.
Next == Calls(InputNames, {<<LineA>>}, 0..2)

Spec == Init /\ [][Next]_vars

\* the lists of lines add_lines is called with in SpecText
LineLists == UNION {[1..n -> LineStrings] : n \in 0..MaxAppend}

\* SpecText: the manager's calls on one document, with every list of lines.
TextNext == Calls(TextNames, LineLists, 0..MaxLineNo)

SpecText == Init /\ [][TextNext]_vars

\* ------------------------------------------------- the directory's owner

\* The names of the files an operator puts into or takes out of the directory.
ExternalNames == {NotesTxt, IndexTmp}

\* The texts of the files an operator puts in: "a\nA" (two lines, no final newline).
ExternalTexts == {<<"a", NL, "A">>}

\* a file appears in the directory without the manager's doing
ExternalAdd(fname, text) ==
    /\ fname \notin DOMAIN disk
    /\ disk' = PutKey(disk, fname,
                      [content |-> text, ctime |-> now, mtime |-> now, readable |-> TRUE])
    /\ Returned("external", "ok", None)
    /\ UNCHANGED <<bulk, index, persisted, now, run>>

\* a file disappears from the directory without the manager's doing
ExternalRemove(fname) ==
    /\ fname \in DOMAIN disk
    /\ disk' = DropKey(disk, fname)
    /\ Returned("external", "ok", None)
    /\ UNCHANGED <<bulk, index, persisted, now, run>>

\* SpecExt: the manager's calls on the files an operator may put in or take
\* out, and the operator's changes to the directory between the calls.
ExtNext ==
    \/ Calls(ExternalNames, {<<LineA>>}, 0..MaxLineNo)
    \/ \E fname \in ExternalNames, text \in ExternalTexts : ExternalAdd(fname, text)
    \/ \E fname \in ExternalNames : ExternalRemove(fname)

SpecExt == Init /\ [][ExtNext]_vars

\* ----------------------------------------------------------- the search

\* The texts of the files an operator puts in where find_text is followed:
\* "a\nA" and "aA\n".
FindTexts == {<<"a", NL, "A">>, <<"a", "A", NL>>}

\* The texts find_text is called with: "", "a", "A", "aA", "a\n".
Needles == {<< >>, <<"a">>, <<"A">>, <<"a", "A">>, <<"a", NL>>}

\* an operator takes away or gives back the permission to read a file
ExternalChmod(fname) ==
    /\ fname \in DOMAIN disk
    /\ disk' = [disk EXCEPT ![fname].readable = ~@]
    /\ Returned("external", "ok", None)
    /\ UNCHANGED <<bulk, index, persisted, now, run>>

\* SpecFind: find_text over the files the manager made and an operator put
\* in, some of which may not be read.  The further documents counted by bulk
\* are empty.
FindNext ==
    \/ \E overwrite \in BOOLEAN : create_file(NotesTxt, overwrite)
    \/ Fits(NotesTxt, <<LineA>>) /\ add_lines(NotesTxt, <<LineA>>)
    \/ \E fname \in ExternalNames, text \in FindTexts : ExternalAdd(fname, text)
    \/ \E fname \in ExternalNames : ExternalChmod(fname)
    \/ \E text \in Needles, ignore_case \in BOOLEAN : find_text(text, ignore_case)

SpecFind == Init /\ [][FindNext]_vars

\* ------------------------------------------------------------ the clock

\* time passes between two calls
Tick ==
    /\ now < MaxClock
    /\ now' = now + 1
    /\ Returned("tick", "ok", None)
    /\ UNCHANGED <<disk, bulk, index, persisted, run>>

\* The names the calls are made with where the timestamps are followed.
TimeNames == {NotesTxt}

\* A second tag for the tag calls, where lists of several tags are followed.
MoreTags == {"urgent"}

\* SpecTime: the manager's calls on one document, with two tags, while the
\* clock advances; at any time the manager is replaced by a new one made over
\* the same directory.
TimeNext ==
    \/ Calls(TimeNames, {<<LineA>>}, 0..1)
    \/ \E name \in TimeNames, tag \in MoreTags : add_tag(name, tag)
    \/ \E name \in TimeNames, tag \in MoreTags : remove_tag(name, tag)
    \/ Tick
    \/ _load_index

SpecTime == Init /\ [][TimeNext]_vars

\* ---------------------------------------------------- a damaged index.json

\* index.json is removed
ExternalUnlinkIndex ==
    /\ persisted.exists
    /\ persisted' = Missing
    /\ Returned("external", "ok", None)
    /\ UNCHANGED <<disk, bulk, index, now, run>>

\* index.json is cut short, so that its text does not parse
ExternalTruncateIndex ==
    /\ persisted.exists
    /\ persisted.closed
    /\ persisted' = [persisted EXCEPT !.closed = FALSE]
    /\ Returned("external", "ok", None)
    /\ UNCHANGED <<disk, bulk, index, now, run>>

\* The fields an editor of index.json takes out of a member.
DroppedFields == {"tags"}

\* a field is taken out of the member at place i of index.json
ExternalDropField(i, field) ==
    /\ Loads(persisted)
    /\ i \in 1..Len(persisted.members)
    /\ persisted' = [persisted EXCEPT !.members[i][2] =
                         [k \in DOMAIN @ \ {field} |-> @[k]]]
    /\ Returned("external", "ok", None)
    /\ UNCHANGED <<disk, bulk, index, now, run>>

\* The names the calls are made with where index.json is damaged.
HealNames == {NotesTxt}

\* SpecHeal: the manager's calls on one document, an operator who adds and
\* removes files and who removes, cuts or edits index.json, and at any time a
\* new manager made over the directory as it is.
HealNext ==
    \/ Calls(HealNames, {<<LineA>>}, 0..1)
    \/ \E fname \in ExternalNames, text \in ExternalTexts : ExternalAdd(fname, text)
    \/ \E fname \in ExternalNames : ExternalRemove(fname)
    \/ ExternalUnlinkIndex
    \/ ExternalTruncateIndex
    \/ \E i \in 1..2, field \in DroppedFields : ExternalDropField(i, field)
    \/ _load_index

SpecHeal == Init /\ [][HealNext]_vars

\* ------------------------------------------------------------- crashes

\* _write_index: tmp.open("w") makes index.tmp an empty file, whatever it was
tmp_open ==
    /\ run.at = "write_index"
    /\ disk' = TmpReplaced(disk)
    /\ run' = [run EXCEPT !.at = "tmp_open",
                          !.tmp = [exists |-> TRUE, members |-> << >>, closed |-> FALSE]]
    /\ UNCHANGED <<bulk, index, persisted, now, last>>

\* _write_index: json.dump has the next member of the text written to index.tmp
json_dump ==
    /\ run.at = "tmp_open"
    /\ Len(run.tmp.members) < Len(JsonText(index).members)
    /\ run' = [run EXCEPT !.tmp.members =
                   Append(@, JsonText(index).members[Len(@) + 1])]
    /\ UNCHANGED <<disk, bulk, index, persisted, now, last>>

\* _write_index: json.dump is done and the with block closes index.tmp
tmp_close ==
    /\ run.at = "tmp_open"
    /\ Len(run.tmp.members) = Len(JsonText(index).members)
    /\ run' = [run EXCEPT !.at = "tmp_closed", !.tmp.closed = TRUE]
    /\ UNCHANGED <<disk, bulk, index, persisted, now, last>>

\* tmp.replace(index_path) placed inside the with block, before index.tmp is closed
CanReplaceOpen(at) == at \in {"tmp_open", "tmp_closed"}

\* tmp.replace(index_path) comes after the with block
CanReplace(at) == at = "tmp_closed"

\* _write_index: tmp.replace(self.index_path), after which the call returns
tmp_replace ==
    /\ CanReplace(run.at)
    /\ persisted' = run.tmp
    /\ run' = Idle
    /\ last' = [op |-> run.op, result |-> "ok", ret |-> run.ret, wrote |-> TRUE]
    /\ UNCHANGED <<disk, bulk, index, now>>

\* the process dies in the middle of a call; the files stay as they are
crash ==
    /\ run.at \notin {"whole", "idle", "crashed"}
    /\ run' = [run EXCEPT !.at = "crashed"]
    /\ last' = [last EXCEPT !.result = "crashed"]
    /\ UNCHANGED <<disk, bulk, index, persisted, now>>

\* The names the calls are made with where crashes are followed.
CrashNames == {NotesTxt}

\* The lists of lines add_lines is given where crashes are followed: ["a"] and [""].
CrashLineLists == {<<LineA>>, << << >> >>}

\* SpecCrash: the manager's calls on one document, the writes of each call
\* taken step by step, and a crash possible between any two steps.
CrashInit ==
    /\ disk = << >>
    /\ bulk = 0
    /\ index = << >>
    /\ persisted = Dumped(<< >>)
    /\ now = 0
    /\ last = [op |-> "init", result |-> "ok", ret |-> None, wrote |-> TRUE]
    /\ run = Idle

CrashNext ==
    \/ run.at = "idle" /\ Calls(CrashNames, CrashLineLists, 0..2)
    \/ remove_line_write
    \/ tmp_open
    \/ json_dump
    \/ tmp_close
    \/ tmp_replace
    \/ crash

SpecCrash == CrashInit /\ [][CrashNext]_vars

\* ------------------------------------------------------------ adapters

\* the class of the exception a manager call raises for each kind of failure
ExceptionOf(result) ==
    CASE result \in {"InvalidName", "InvalidArgument"} -> "ValueError"
      [] result = "CollectionFull" -> "RuntimeError"
      [] result = "AlreadyExists" -> "FileExistsError"
      [] result = "NotFound" -> "FileNotFoundError"
      [] result = "OutOfRange" -> "IndexError"
      [] result = "IsADirectory" -> "IsADirectoryError"
      [] result = "PermissionError" -> "PermissionError"
      [] OTHER -> "none"

\* create_app: the status of the response of the endpoint that makes the
\* manager call op, when the call ends with result.  An exception no handler
\* catches is answered by Flask with 500.
HttpStatus(op, result) ==
    LET exc == ExceptionOf(result)
    IN  IF result = "ok" THEN 200
        ELSE IF op = "create_file" THEN 400
        ELSE IF op \in {"show_file", "add_lines", "remove_file"}
             THEN IF exc = "FileNotFoundError" THEN 404 ELSE 500
        ELSE IF op = "remove_line"
             THEN IF exc = "FileNotFoundError" THEN 404
                  ELSE IF exc = "IndexError" THEN 400
                  ELSE 500
        ELSE 500

\* the manager calls the endpoints of create_app make
WebOps ==
    {"list_files", "show_file", "create_file", "add_lines", "remove_file",
     "remove_line", "find_text"}

\* the manager calls the subcommands of the command line make
CliOps ==
    {"list_files", "show_file", "create_file", "add_lines", "remove_file",
     "remove_line", "find_text"}

\* main: the exit code of the subcommand that makes the manager call op, when
\* the call ends with result.  One handler catches every Exception.
ExitCode(op, result) ==
    IF op \in CliOps
    THEN IF ExceptionOf(result) = "none" THEN 0 ELSE 1
    ELSE 2

\* ------------------------------------------------------------ properties

\* the step is a call, with name, that builds a path from it
PathCall(name) ==
    \/ last'.op = "create_file" /\ \E overwrite \in BOOLEAN : create_file(name, overwrite)
    \/ last'.op = "show_file" /\ show_file(name)
    \/ last'.op = "add_lines" /\ \E lines \in LineLists : add_lines(name, lines)
    \/ last'.op = "remove_file" /\ remove_file(name)
    \/ last'.op = "remove_line" /\ \E line_no \in 0..MaxLineNo : remove_line(name, line_no)

\* what list() would return for the directory d: its entries by filename
Listed(d) == Rebuilt(d)

\* C1: the filenames of the index are the documents present in the directory.
C1_IndexMatchesDisk == DOMAIN index = DOMAIN disk

\* C2: create of an accepted name that is not present, below 100 documents,
\* succeeds, leaves the file on disk, and list() then shows it with size 0.
C2_CreateThenListed ==
    [][\A name \in InputNames :
          (/\ SanitizeOk(name)
           /\ ~PathExists(disk, FilePath(name))
           /\ FilesCount(disk, bulk) < MAX_FILES
           /\ create_file(name, FALSE))
          => /\ last'.result = "ok"
             /\ Basename(name) \in DOMAIN disk'
             /\ Basename(name) \in DOMAIN Listed(disk')
             /\ Listed(disk')[Basename(name)].size = 0]_vars

\* C3: with 100 or more documents on disk every create is rejected with
\* CollectionFull, and no call takes the directory from at most 100 documents
\* to more than 100.
C3_NeverMoreThanMax ==
    [][/\ (last'.op = "create_file" /\ FilesCount(disk, bulk) >= MAX_FILES)
            => (last'.result = "CollectionFull" /\ disk' = disk /\ index' = index)
       /\ FilesCount(disk, bulk) <= MAX_FILES
            => FilesCount(disk', bulk') <= MAX_FILES]_vars

\* C3 witness: a create was rejected at exactly 100 documents, among them a
\* document the calls name.
C3_Witness ==
    /\ last.op = "create_file"
    /\ last.result = "CollectionFull"
    /\ FilesCount(disk, bulk) = MAX_FILES
    /\ DOMAIN disk # {}

\* C4: append(D, L) then read(D) gives the lines D had, then one line per
\* element of L, in order, without its trailing terminators.
C4_AppendThenRead ==
    [][\A name \in TextNames, lines \in LineLists :
          (/\ SanitizeOk(name)
           /\ Basename(name) \in DOMAIN disk
           /\ add_lines(name, lines))
          => /\ last'.result = "ok"
             /\ Basename(name) \in DOMAIN disk'
             /\ ShownLines(disk'[Basename(name)].content)
                  = ShownLines(disk[Basename(name)].content)
                      \o [i \in 1..Len(lines) |-> rstrip(lines[i])]]_vars

\* C5: deleteLine(D, i) with 1 <= i <= n returns line i of D, and read(D) then
\* gives the n-1 other lines in their order.
C5_DeleteLine ==
    [][\A name \in ExternalNames, i \in 1..MaxLineNo :
          (/\ Basename(name) \in DOMAIN disk
           /\ i <= Len(ShownLines(disk[Basename(name)].content))
           /\ remove_line(name, i))
          => /\ last'.result = "ok"
             /\ last'.ret = ShownLines(disk[Basename(name)].content)[i]
             /\ Basename(name) \in DOMAIN disk'
             /\ ShownLines(disk'[Basename(name)].content)
                  = Popped(ShownLines(disk[Basename(name)].content), i)]_vars

\* C6: deleteLine(D, i) fails with InvalidArgument when i < 1 and with
\* OutOfRange when i exceeds the line count of the document D; either way the
\* documents, the index and index.json stay as they were.
C6_DeleteLineRejected ==
    [][\A name \in ExternalNames, i \in 0..MaxLineNo :
          remove_line(name, i)
          => /\ i < 1 => last'.result = "InvalidArgument"
             /\ (/\ i >= 1
                 /\ Basename(name) \in DOMAIN disk
                 /\ i > Len(ShownLines(disk[Basename(name)].content)))
                  => last'.result = "OutOfRange"
             /\ last'.result \in {"InvalidArgument", "OutOfRange"}
                  => (disk' = disk /\ index' = index /\ persisted' = persisted)]_vars

\* C6 witness: a line number beyond the last line of a document that has lines
\* was rejected.
C6_Witness ==
    /\ last.op = "remove_line"
    /\ last.result = "OutOfRange"
    /\ \E f \in DOMAIN disk : Len(readlines(disk[f].content)) \in 1..(MaxLineNo - 1)

\* C7: a successful deleteFile(name), name accepted by sanitize, leaves neither
\* the file nor its index entry: get_meta gives None, the tag calls find
\* nothing, list() does not show it.
C7_DeleteFile ==
    [][\A name \in InputNames :
          (SanitizeOk(name) /\ remove_file(name) /\ last'.result = "ok")
          => /\ Basename(name) \notin DOMAIN disk'
             /\ IndexGet(index', name) = None
             /\ Basename(name) \notin DOMAIN Listed(disk')]_vars

\* C8, as claimed: sanitize rejects "../../etc/passwd" and "index.json" and
\* accepts "notes.txt" unchanged, and no call makes a file or an index entry
\* under a name sanitize does not return.
C8_SanitizeAsClaimed ==
    [][/\ last'.op = "get_meta"
            => /\ get_meta(EtcPasswd) => last'.result = "InvalidName"
               /\ get_meta(INDEX_FILENAME) => last'.result = "InvalidName"
               /\ get_meta(NotesTxt)
                    => (last'.result = "ok" /\ FilePath(NotesTxt).name = NotesTxt)
       /\ DOMAIN disk' \cup DOMAIN index' \subseteq {NotesTxt, IndexTmp}]_vars

\* C8, amended: sanitize strips the directories of "../../etc/passwd" and
\* accepts what is left, "passwd"; it rejects "index.json" and accepts
\* "notes.txt" unchanged, and no call makes a file or an index entry under a
\* name sanitize does not return.
C8_Sanitize ==
    [][/\ last'.op = "get_meta"
            => /\ get_meta(EtcPasswd)
                    => (last'.result = "ok" /\ FilePath(EtcPasswd).name = Passwd)
               /\ get_meta(INDEX_FILENAME) => last'.result = "InvalidName"
               /\ get_meta(NotesTxt)
                    => (last'.result = "ok" /\ FilePath(NotesTxt).name = NotesTxt)
       /\ DOMAIN disk' \cup DOMAIN index' \subseteq {NotesTxt, IndexTmp, Passwd}]_vars

\* C8 witness: get_meta, called with "../../etc/passwd", returned the entry of
\* the document passwd, and no file or entry has the reserved name.
C8_Witness ==
    /\ last.op = "get_meta"
    /\ last.result = "ok"
    /\ Passwd \in DOMAIN disk \cap DOMAIN index
    /\ last.ret = Some(index[Passwd])
    /\ INDEX_FILENAME \notin DOMAIN disk \cup DOMAIN index

\* C9: the path built from an accepted name is an entry of the collection
\* directory, never the directory itself or its parent.
C9_PathConfined ==
    [][\A name \in InputNames :
          (/\ SanitizeOk(name)
           /\ last'.result \notin {"CollectionFull", "InvalidArgument"}
           /\ PathCall(name))
          => FilePath(name).kind = "entry"]_vars

\* C10: list() keeps the tags of every tracked document that is on disk.
C10_TagsSurviveListing ==
    [][list_files
          => \A f \in DOMAIN index \cap DOMAIN disk :
                /\ f \in DOMAIN index'
                /\ \A t \in Tags : InSeq(t, index[f].tags) => InSeq(t, index'[f].tags)]_vars

\* C11: list() leaves created_at and last_modified of every tracked document
\* that is still on disk as they were, and re-reads its size.
C11_ListingKeepsTimestamps ==
    [][list_files
          => \A f \in DOMAIN index \cap DOMAIN disk :
                /\ f \in DOMAIN index'
                /\ index'[f].created_at = index[f].created_at
                /\ index'[f].last_modified = index[f].last_modified
                /\ index'[f].size = Len(disk[f].content)]_vars

\* C12: whatever the index held and whatever an operator added or removed,
\* list() returns one FileMeta per file that is on disk when it is called, by
\* ascending filename, and index and index.json then have exactly those keys.
C12_ListingReconciles ==
    [][list_files
          => LET ret == last'.ret
             IN  /\ Len(ret) = Cardinality(DOMAIN disk)
                 /\ {ret[i].filename : i \in 1..Len(ret)} = DOMAIN disk
                 /\ \A i \in 1..Len(ret) : ret[i].size = Len(disk[ret[i].filename].content)
                 /\ \A i, j \in 1..Len(ret) :
                        i < j => StrLess(ret[i].filename, ret[j].filename)
                 /\ DOMAIN index' = DOMAIN disk
                 /\ persisted'.exists
                 /\ persisted'.closed
                 /\ MemberKeys(persisted') = DOMAIN disk]_vars

\* C12 witness: list() returned index.tmp before notes.txt, both put in by an
\* operator.
C12_Witness ==
    /\ last.op = "list_files"
    /\ Len(last.ret) = 2
    /\ last.ret[1].filename = IndexTmp
    /\ last.ret[2].filename = NotesTxt
    /\ last.ret[2].size = 3

\* the line contains text at some place, case folded when ignore_case
LineContains(line, text, ignore_case) ==
    \E k \in 0..(Len(line) - Len(text)) :
        \A j \in 1..Len(text) :
            \/ line[k + j] = text[j]
            \/ /\ ignore_case
               /\ \E n \in 1..26 : {line[k + j], text[j]} = {UpperCase[n], LowerCase[n]}

\* the lines of the files of d that may be read which contain text: <<file, number>>
MatchingLines(d, text, ignore_case) ==
    {<<f, i>> \in (DOMAIN d) \X (1..(MaxFileLen + 1)) :
        /\ d[f].readable
        /\ i <= Len(readlines(d[f].content))
        /\ LineContains(readlines(d[f].content)[i], text, ignore_case)}

\* ret is one triple per line of matching, by filename and then line number
ResultsAre(ret, d, matching) ==
    /\ {<<ret[k][1], ret[k][2]>> : k \in 1..Len(ret)} = matching
    /\ Len(ret) = Cardinality(matching)
    /\ \A k \in 1..Len(ret) :
          /\ ret[k][1] # INDEX_FILENAME
          /\ ret[k][3] = ShownLines(d[ret[k][1]].content)[ret[k][2]]
    /\ \A k, l \in 1..Len(ret) :
          k < l => \/ StrLess(ret[k][1], ret[l][1])
                   \/ ret[k][1] = ret[l][1] /\ ret[k][2] < ret[l][2]

\* C13: find(text, ignoreCase), every file being readable, returns one triple
\* (filename, 1-based line number, line without terminator) per line that
\* contains text, lower-cased on both sides when ignoreCase, ordered by
\* filename and then line number; index.json is not searched.  The line is
\* taken as the file holds it, its terminator included.
C13_FindResults ==
    [][last'.op = "find_text"
          => \A text \in Needles, ignore_case \in BOOLEAN :
                (find_text(text, ignore_case) /\ \A f \in DOMAIN disk : disk[f].readable)
                => /\ last'.result = "ok"
                   /\ ResultsAre(last'.ret, disk,
                                 MatchingLines(disk, text, ignore_case))]_vars

\* C13 witness: find returned three lines of two files, the first of them a
\* line in which the text occurs twice when case is ignored.
C13_Witness ==
    /\ last.op = "find_text"
    /\ last.result = "ok"
    /\ Len(last.ret) = 3
    /\ last.ret[1] = <<IndexTmp, 1, <<"a", "A">>>>
    /\ last.ret[2][1] = NotesTxt
    /\ last.ret[3] = <<NotesTxt, 2, <<"A">>>>

\* C14: find skips a file that cannot be read and returns the matching lines
\* of every file that can.
C14_FindSkipsUnreadable ==
    [][last'.op = "find_text"
          => \A text \in Needles, ignore_case \in BOOLEAN :
                find_text(text, ignore_case)
                => /\ last'.result = "ok"
                   /\ ResultsAre(last'.ret, disk,
                                 MatchingLines(disk, text, ignore_case))]_vars

\* the tags of a list
TagSet(tags) == {tags[i] : i \in 1..Len(tags)}

\* C15: on a tracked document add_tag(D, t) leaves t among the tags get_meta
\* shows, once; a second add_tag changes nothing; remove_tag(D, t) leaves the
\* tags without t, and changes nothing when t was absent; either call writes
\* the index exactly when the list of tags changed; no list holds a tag twice.
C15_TagCalls ==
    [][last'.op \in {"add_tag", "remove_tag"}
          => \A name \in TimeNames, t \in Tags \cup MoreTags :
                LET f == Basename(name)
                    changed == index'[f].tags # index[f].tags
                IN  /\ (f \in DOMAIN index /\ add_tag(name, t))
                        => /\ last'.result = "ok"
                           /\ IndexGet(index', name) # None
                           /\ t \in TagSet(IndexGet(index', name)[1].tags)
                           /\ TagSet(index'[f].tags) = TagSet(index[f].tags) \cup {t}
                           /\ t \in TagSet(index[f].tags) => index' = index
                           /\ last'.wrote <=> changed
                           /\ ~changed => persisted' = persisted
                           /\ \A g \in DOMAIN index' :
                                 Len(index'[g].tags) = Cardinality(TagSet(index'[g].tags))
                    /\ (f \in DOMAIN index /\ remove_tag(name, t))
                        => /\ last'.result = "ok"
                           /\ TagSet(index'[f].tags) = TagSet(index[f].tags) \ {t}
                           /\ t \notin TagSet(index[f].tags) => index' = index
                           /\ last'.wrote <=> changed
                           /\ ~changed => persisted' = persisted
                           /\ \A g \in DOMAIN index' :
                                 Len(index'[g].tags) = Cardinality(TagSet(index'[g].tags))]_vars

\* C15 witness: add_tag of a tag the document already had, beside another
\* tag, returned without writing the index.
C15_Witness ==
    /\ last.op = "add_tag"
    /\ last.result = "ok"
    /\ ~last.wrote
    /\ NotesTxt \in DOMAIN index
    /\ Len(index[NotesTxt].tags) = 2

\* C16: add_tag and remove_tag on a file that is on disk without an index
\* entry fail with NotFound and change nothing; list() gives every file on disk
\* an entry, and on a file that has an entry the tag calls succeed.
C16_TagsConsultIndex ==
    [][last'.op \in {"add_tag", "remove_tag", "list_files"}
          => \A name \in ExternalNames, t \in Tags :
                LET f == Basename(name)
                    tagged == add_tag(name, t) \/ remove_tag(name, t)
                IN  /\ (f \in DOMAIN disk \ DOMAIN index /\ tagged)
                        => /\ last'.result = "NotFound"
                           /\ disk' = disk
                           /\ index' = index
                           /\ persisted' = persisted
                    /\ (f \in DOMAIN disk /\ list_files) => f \in DOMAIN index'
                    /\ (f \in DOMAIN index /\ tagged) => last'.result = "ok"]_vars

\* C16 witness: add_tag succeeded on notes.txt, a file an operator put in
\* (its text has no final newline), which list() has given an entry.
C16_Witness ==
    /\ last.op = "add_tag"
    /\ last.result = "ok"
    /\ NotesTxt \in DOMAIN disk \cap DOMAIN index
    /\ disk[NotesTxt].content = <<"a", NL, "A">>
    /\ index[NotesTxt].size = 3
    /\ index[NotesTxt].tags = <<"important">>

\* C17: a manager made over the directory another manager left, which nobody
\* else touched, holds the index that manager held: the same filenames and for
\* each the same filename, created_at, last_modified, size and list of tags.
C17_RoundTrip ==
    [][(last'.op = "__init__" /\ _load_index)
          => /\ DOMAIN index' = DOMAIN index
             /\ \A f \in DOMAIN index :
                   /\ index'[f].filename = index[f].filename
                   /\ index'[f].created_at = index[f].created_at
                   /\ index'[f].last_modified = index[f].last_modified
                   /\ index'[f].size = index[f].size
                   /\ index'[f].tags = index[f].tags]_vars

\* C17 witness: the new manager has loaded, not rebuilt, an entry with two
\* tags whose two timestamps differ.
C17_Witness ==
    /\ last.op = "__init__"
    /\ ~last.wrote
    /\ NotesTxt \in DOMAIN index
    /\ index[NotesTxt].tags = <<"urgent", "important">>
    /\ index[NotesTxt].created_at < index[NotesTxt].last_modified
    /\ index[NotesTxt].size = 2

\* C18: the index is written in full to the temporary file and then renamed:
\* every step, a crash included, leaves index.json as it was or replaces it
\* by the complete text of the new index, so the file always loads.
C18_IndexWriteAtomic ==
    [][/\ persisted' = persisted \/ persisted' = Dumped(index)
       /\ Loads(persisted')]_vars

\* C18 witness: the process crashed while index.tmp held a part of the new
\* text, and index.json still holds the text of the index before the call.
C18_Witness ==
    /\ run.at = "crashed"
    /\ run.tmp.exists
    /\ ~run.tmp.closed
    /\ Len(run.tmp.members) = 1
    /\ Loads(persisted)
    /\ persisted # Dumped(index)

\* C19: while remove_line rewrites a document, and after a crash at any step
\* of it, the document holds the text it had or the text of the remaining
\* lines.
C19_LineRewriteAtomic ==
    (run.op = "remove_line" /\ run.fname \in DOMAIN disk)
        => disk[run.fname].content \in {run.before, writelines(run.lines)}

\* C20: made over a directory whose index.json is missing, does not parse or
\* has a member without a field of FileMeta, the manager does not raise, and
\* it then has one entry per file on disk and has written an index.json that
\* loads to that index.
C20_SelfHealingLoad ==
    [][(last'.op = "__init__" /\ ~Loads(persisted) /\ _load_index)
          => /\ last'.result = "ok"
             /\ DOMAIN index' = DOMAIN disk'
             /\ Loads(persisted')
             /\ Loaded(persisted') = index']_vars

\* C21: a successful create of notes.txt leaves the document empty, with size 0
\* and last_modified the time of the call; when the document was not there
\* before, its FileMeta is fresh (created_at = last_modified, no tags); when it
\* was there and had an entry, created_at is kept.
C21_CreateMetadata ==
    [][last'.op = "create_file"
          => \A overwrite \in BOOLEAN :
                (create_file(NotesTxt, overwrite) /\ last'.result = "ok")
                => /\ NotesTxt \in DOMAIN disk' \cap DOMAIN index'
                   /\ disk'[NotesTxt].content = << >>
                   /\ index'[NotesTxt].size = 0
                   /\ index'[NotesTxt].last_modified = now
                   /\ NotesTxt \notin DOMAIN disk
                        => /\ index'[NotesTxt].created_at = index'[NotesTxt].last_modified
                           /\ index'[NotesTxt].tags = << >>
                   /\ NotesTxt \in DOMAIN disk \cap DOMAIN index
                        => index'[NotesTxt].created_at = index[NotesTxt].created_at]_vars

\* C22: every endpoint answers a manager failure NotFound with 404, a failure
\* AlreadyExists, InvalidArgument or InvalidName with 400, and every other
\* failure with 500.  (The failures of calls on "." and "..", which the
\* endpoints cannot all make, are left aside.)
C22_HttpErrorMapping ==
    [][(last'.op \in WebOps /\ last'.result \notin {"ok", "IsADirectory"})
          => HttpStatus(last'.op, last'.result) =
                IF last'.result = "NotFound" THEN 404
                ELSE IF last'.result \in {"AlreadyExists", "InvalidArgument", "InvalidName"}
                     THEN 400
                ELSE 500]_vars

\* C23: a subcommand exits with 0 exactly when its manager call succeeded,
\* with 2 when the call failed validation (invalid or reserved name, line
\* number below 1), and with 1 after any other failure.
C23_CliExitCodes ==
    [][last'.op \in CliOps
          => ExitCode(last'.op, last'.result) =
                IF last'.result = "ok" THEN 0
                ELSE IF last'.result \in {"InvalidName", "InvalidArgument"}
                     THEN 2
                ELSE 1]_vars

\* C24: when the manager has been constructed and whenever one of its calls
\* has returned, with a result or with an exception, index.json parses and
\* deserializes to exactly the index held in memory: the same filenames and
\* for each the same FileMeta.
C24_PersistedIsIndex ==
    run.at = "whole" => (Loads(persisted) /\ Loaded(persisted) = index)

\* C24 witness: add_tag has just appended a second tag to an entry that was
\* modified after it was created, and has written the index.
C24_Witness ==
    /\ last.op = "add_tag"
    /\ last.wrote
    /\ NotesTxt \in DOMAIN index
    /\ index[NotesTxt].tags = <<"important", "urgent">>
    /\ index[NotesTxt].created_at < index[NotesTxt].last_modified
    /\ persisted.members[1][2].tags = <<"important", "urgent">>

\* C25: a rejected call changes nothing.  When create_file fails with
\* AlreadyExists, CollectionFull or InvalidName, or show_file, add_lines,
\* remove_line, remove_file, add_tag or remove_tag fails with NotFound or
\* InvalidName, the files of the directory and their contents, the index in
\* memory and index.json are what they were before the call.
C25_RejectedChangesNothing ==
    [][(\/ /\ last'.op = "create_file"
           /\ last'.result \in {"AlreadyExists", "CollectionFull", "InvalidName"}
        \/ /\ last'.op \in {"show_file", "add_lines", "remove_line",
                            "remove_file", "add_tag", "remove_tag"}
           /\ last'.result \in {"NotFound", "InvalidName"})
          => /\ disk' = disk
             /\ bulk' = bulk
             /\ index' = index
             /\ persisted' = persisted]_vars

\* C25 witness: add_lines has just failed with NotFound in a directory that
\* holds another document, which is in both indexes, and the file it named is
\* not there.
C25_Witness ==
    /\ last.op = "add_lines"
    /\ last.result = "NotFound"
    /\ NotesTxt \notin DOMAIN disk
    /\ DOMAIN disk # {}
    /\ DOMAIN index = DOMAIN disk
    /\ persisted.members # << >>

\* C26: writing the index touches no document, index.tmp included.  A call
\* that only writes the index (list_files, add_tag, remove_tag) leaves every
\* file of the directory as it was; no call but remove_file takes a document
\* away; and the empty file create_file has written is there when it returns.
C26_IndexWriteKeepsDocuments ==
    [][last'.wrote
          => /\ last'.op \in {"list_files", "add_tag", "remove_tag"} => disk' = disk
             /\ last'.op # "remove_file" => DOMAIN disk \subseteq DOMAIN disk'
             /\ last'.op = "create_file"
                   => \E f \in DOMAIN disk' : disk'[f].content = << >>]_vars

====
